---- MODULE Spec2Model ----
(***************************************************************************)
(* Guardian V2 firmware: the polling loop() that turns the button and the  *)
(* BMA250 acceleration samples into rate-limited alerts.                   *)
(*                                                                         *)
(* Three sketches of the repository are modelled side by side, selected by *)
(* the variable `variant`, which never changes after boot:                 *)
(*   "guardian"  src/firmware/guardian/guardian.ino                        *)
(*               (src/unnamed/part_002 has the same loop and detector)     *)
(*   "part_001"  src/unnamed/part_001 (proxy-server build, other tunables) *)
(*   "part_003"  src/unnamed/part_003 (early-return loop, other detector)  *)
(*                                                                         *)
(* Time is the number of milliseconds since power-up (`now`), which is     *)
(* what millis() returns.  One loop() call is one action: the blocking     *)
(* delays and sends inside it advance `now`.                               *)
(***************************************************************************)
EXTENDS Integers, Sequences, FiniteSets

VARIABLES
  variant,        \* which sketch is flashed
  readings,       \* the raw readings the sensor delivers in this run
  startAt,        \* true time at which the run starts to be followed
  now,            \* true time in ms at the next entry of loop()
  lastAlertTime,  \* guardian.ino:51, part_001:48, part_003:57
  freefall_flag,  \* guardian.ino:244 (part_003:58 isFreefall)
  freefall_time,  \* guardian.ino:245 (part_003:59 freefallStartTime)
  wifiStatus,     \* part_003:60 (the other sketches keep no such variable)
  setupAttempts,  \* WiFi.begin() calls made by connectWiFi() in setup()
  \* ---- what the last loop() call observed and did (history) ----
  button,         \* TRUE iff the button was held down during the call
  armed,          \* TRUE iff the call got past the cooldown test
  fallRet,        \* what checkForFall() returned: "true", "false", or "none"
                  \* when the call did not reach it
  checkAt,        \* true time of the checkForFall() call, -1 if not called
  sends,          \* the sendTelegramAlert() calls of the call, in order
  writes,         \* number of assignments to lastAlertTime in the call
  \* ---- what happened before (history) ----
  sample,         \* the raw <<X, Y, Z>> checkForFall() read in the call, <<>> if
                  \* it was not called
  prevSendAt,     \* true time of the last send before this call, -1 if none
  dipSeen,        \* some reading so far was below the freefall threshold
  winOpenedAt,    \* true time of the checkForFall() call that opened the window
                  \* which is open or was open when the last call began; -1 if none
  lastDipAt,      \* true time of the last reading below the freefall threshold
                  \* in that window; -1 if none
  passes,         \* number of loop() calls that got past the cooldown test
  everConfirmed,  \* checkForFall() has returned true in some call so far
  lastAlertAt,    \* true time of the last assignment to lastAlertTime, 0 if none
  onlyTilted      \* every reading so far had the device lying on its side

vars == <<variant, readings, startAt, setupAttempts, now, lastAlertTime, freefall_flag, freefall_time, wifiStatus,
          button, armed, fallRet, checkAt, sends, writes, sample, prevSendAt, dipSeen,
          winOpenedAt, lastDipAt, passes, everConfirmed, lastAlertAt,
          onlyTilted>>

\* --------------------------------------------------------------- bounds
\* At most MaxArmed calls of loop() get past the cooldown test.
MaxArmed == 14
\* loop() is called until Span ms after the first cooldown from power-up is over.
Span == 5000
\* Time one pass of part_003's loop() takes (it has no delay() of its own).
Step == 125
\* The value at which millis() wraps to 0, standing for 2^32.
MillisModulus == 65536

\* ------------------------------------------------------------ the clock
Variants == {"guardian", "part_001", "part_003"}

\* millis() at true time t: milliseconds since power-up in an unsigned long, which
\* wraps to 0 at 2^32.  The width is scaled down to MillisModulus here; it exceeds
\* every interval the sketches measure, as 2^32 does.
Millis(t) == t % MillisModulus

\* Faulty difference: computed on signed numbers, negative after a wrap
Elapsed_Signed(t, since) == Millis(t) - since

\* millis() - since, on unsigned long: the difference modulo the width
Elapsed(t, since) == (Millis(t) - since) % MillisModulus

\* ------------------------------------------------------------ tunables
\* ALERT_COOLDOWN (guardian.ino:50, part_001:47), ALERT_COOLDOWN_MS (part_003:49)
ALERT_COOLDOWN(v) == IF v = "part_003" THEN 15000 ELSE 10000

\* The thresholds are floats in g; they are kept here in tenths of a g.
\* FREEFALL_THRESHOLD (guardian.ino:45, part_001:41), FREEFALL_THRESHOLD_G (part_003:52)
FREEFALL_THRESHOLD(v) == IF v = "part_001" THEN 6 ELSE 4

\* IMPACT_THRESHOLD (guardian.ino:46, part_001:42), IMPACT_THRESHOLD_G (part_003:53)
IMPACT_THRESHOLD(v) == IF v = "part_001" THEN 22 ELSE 30

\* FREEFALL_TIME_MS (part_003:54); the other sketches have no minimum duration
FREEFALL_TIME_MS == 250

\* The literal in the timeout test of checkForFall (guardian.ino:264, part_001:211);
\* part_003 has no timeout test.
FREEFALL_TIMEOUT(v) == CASE v = "guardian" -> 1000
                         [] v = "part_001" -> 1200

\* Raw counts per g the sketch divides by (guardian.ino:249, part_001:189, part_003:229)
Divisor(v) == CASE v = "guardian" -> 1024
                [] v = "part_001" -> 256
                [] v = "part_003" -> 64

\* ------------------------------------------------------------- samples
\* x*x + y*y + z*z of the raw reading <<X, Y, Z>>
SumSq(raw) == raw[1] * raw[1] + raw[2] * raw[2] + raw[3] * raw[3]

\* total_g = sqrt((X/D)^2 + (Y/D)^2 + (Z/D)^2), compared with a threshold th given
\* in tenths of a g: total_g < th/10 iff 100 * SumSq < (th * D)^2.
BelowG(v, raw, th) == 100 * SumSq(raw) < (th * Divisor(v)) * (th * Divisor(v))
AboveG(v, raw, th) == 100 * SumSq(raw) > (th * Divisor(v)) * (th * Divisor(v))

\* total_g < FREEFALL_THRESHOLD (guardian.ino:254, part_001:199, part_003:235)
IsFreefall(v, raw) == raw # <<>> /\ BelowG(v, raw, FREEFALL_THRESHOLD(v))

\* total_g > IMPACT_THRESHOLD (guardian.ino:260, part_001:205, part_003:248)
IsImpact(v, raw) == raw # <<>> /\ AboveG(v, raw, IMPACT_THRESHOLD(v))

\* The readings the sensor delivers in the model: the device at rest or in free
\* fall or hitting the ground, along the Z axis, of 0.3 g, 1 g, and 3.5 g as the
\* sketch converts them (tenths of a g times Divisor / 10).
GLevels == {3, 10, 35}
RawOf(v, tenths) == <<0, 0, (tenths * Divisor(v)) \div 10>>

\* The device at rest lying on its side: 1 g along the X axis
TiltedRaw(v) == <<Divisor(v), 0, 0>>
IsTilted(raw) == raw # <<>> /\ raw[1] # 0 /\ raw[3] = 0

\* What X, Y, Z hold after a read() that failed.  read() returns nothing and the
\* sketches test nothing, so the values are used as a reading: all 0 (part_003 goes
\* on after "Sensor FAIL!", part_003:82-84) or the all-ones bytes of an unanswered
\* bus read.  (Values left over from the read before act like a valid reading.)
FailedRaws == {<<0, 0, 0>>, <<-1, -1, -1>>}

Samples(v) == {RawOf(v, g) : g \in GLevels} \cup {TiltedRaw(v)} \cup FailedRaws

\* ------------------------------------------------------- the fall detector
\* Faulty checkForFall(): the impact test is not guarded by freefall_flag.
checkForFall_Unguarded(v, flag, time, raw, t) ==
  LET flag1 == IF IsFreefall(v, raw) THEN TRUE ELSE flag
      time1 == IF IsFreefall(v, raw) THEN Millis(t) ELSE time
  IN  IF IsImpact(v, raw)
      THEN [flag |-> FALSE, time |-> time1, ret |-> TRUE]
      ELSE IF flag1 /\ Elapsed(t, time1) > FREEFALL_TIMEOUT(v)
           THEN [flag |-> FALSE, time |-> time1, ret |-> FALSE]
           ELSE [flag |-> flag1, time |-> time1, ret |-> FALSE]

\* Faulty checkForFall(): the window is left open when a fall is confirmed.
checkForFall_KeepOpen(v, flag, time, raw, t) ==
  LET flag1 == IF IsFreefall(v, raw) THEN TRUE ELSE flag
      time1 == IF IsFreefall(v, raw) THEN Millis(t) ELSE time
  IN  IF flag1
      THEN IF IsImpact(v, raw)
           THEN [flag |-> flag1, time |-> time1, ret |-> TRUE]
           ELSE IF Elapsed(t, time1) > FREEFALL_TIMEOUT(v)
                THEN [flag |-> FALSE, time |-> time1, ret |-> FALSE]
                ELSE [flag |-> flag1, time |-> time1, ret |-> FALSE]
      ELSE [flag |-> flag1, time |-> time1, ret |-> FALSE]

\* Faulty checkForFall(): a reading that is neither a dip nor an impact closes the
\* window at once.
checkForFall_CloseOnRecover(v, flag, time, raw, t) ==
  LET flag1 == IF IsFreefall(v, raw) THEN TRUE ELSE flag
      time1 == IF IsFreefall(v, raw) THEN Millis(t) ELSE time
  IN  IF flag1
      THEN IF IsImpact(v, raw)
           THEN [flag |-> FALSE, time |-> time1, ret |-> TRUE]
           ELSE IF ~IsFreefall(v, raw) \/ Elapsed(t, time1) > FREEFALL_TIMEOUT(v)
                THEN [flag |-> FALSE, time |-> time1, ret |-> FALSE]
                ELSE [flag |-> flag1, time |-> time1, ret |-> FALSE]
      ELSE [flag |-> flag1, time |-> time1, ret |-> FALSE]

\* Faulty checkForFall() of part_003: only an impact closes the window.
checkForFall_part003_KeepOnRecover(v, flag, time, raw, t) ==
  IF IsFreefall(v, raw)
  THEN IF ~flag
       THEN [flag |-> TRUE, time |-> Millis(t), ret |-> FALSE]
       ELSE [flag |-> flag, time |-> time, ret |-> FALSE]
  ELSE IF flag /\ IsImpact(v, raw)
       THEN [flag |-> FALSE, time |-> time,
             ret |-> Elapsed(t, time) > FREEFALL_TIME_MS]
       ELSE [flag |-> flag, time |-> time, ret |-> FALSE]

\* Faulty checkForFall() of part_003: the length of the freefall is not tested.
checkForFall_part003_AnyLength(v, flag, time, raw, t) ==
  IF IsFreefall(v, raw)
  THEN IF ~flag
       THEN [flag |-> TRUE, time |-> Millis(t), ret |-> FALSE]
       ELSE [flag |-> flag, time |-> time, ret |-> FALSE]
  ELSE IF flag
       THEN [flag |-> FALSE, time |-> time, ret |-> IsImpact(v, raw)]
       ELSE [flag |-> flag, time |-> time, ret |-> FALSE]

\* checkForFall() of guardian.ino and part_001, called at true time t with the
\* reading raw; flag and time are the statics freefall_flag and freefall_time.
\* The result is their new values and the value returned.
checkForFall(v, flag, time, raw, t) ==
  LET flag1 == IF IsFreefall(v, raw) THEN TRUE ELSE flag
      time1 == IF IsFreefall(v, raw) THEN Millis(t) ELSE time
  IN  IF flag1
      THEN IF IsImpact(v, raw)
           THEN [flag |-> FALSE, time |-> time1, ret |-> TRUE]
           ELSE IF Elapsed(t, time1) > FREEFALL_TIMEOUT(v)
                THEN [flag |-> FALSE, time |-> time1, ret |-> FALSE]
                ELSE [flag |-> flag1, time |-> time1, ret |-> FALSE]
      ELSE [flag |-> flag1, time |-> time1, ret |-> FALSE]

\* checkForFall() of part_003; flag and time are isFreefall and freefallStartTime.
checkForFall_part003(v, flag, time, raw, t) ==
  IF IsFreefall(v, raw)
  THEN IF ~flag
       THEN [flag |-> TRUE, time |-> Millis(t), ret |-> FALSE]
       ELSE [flag |-> flag, time |-> time, ret |-> FALSE]
  ELSE IF flag
       THEN LET wasValidFreefall == Elapsed(t, time) > FREEFALL_TIME_MS
            IN  [flag |-> FALSE, time |-> time,
                 ret |-> wasValidFreefall /\ IsImpact(v, raw)]
       ELSE [flag |-> flag, time |-> time, ret |-> FALSE]

\* the detector of the sketch that is flashed
Detector(v, flag, time, raw, t) ==
  IF v = "part_003"
  THEN checkForFall_part003(v, flag, time, raw, t)
  ELSE checkForFall(v, flag, time, raw, t)

\* ------------------------------------------------------------- sending
\* What the network does during one sendTelegramAlert() call:
\*   link  WiFi.status() == WL_CONNECTED when the call starts (part_003 only reads it)
\*   join  the WiFi.begin() attempt from which on it returns WL_CONNECTED (0: none)
\*   conn  client.connect() succeeds
NetCases ==
  { [link |-> TRUE,  join |-> 1, conn |-> TRUE],     \* all well
    [link |-> TRUE,  join |-> 1, conn |-> FALSE],    \* connection refused
    [link |-> FALSE, join |-> 1, conn |-> TRUE],     \* WiFi dropped, back on retry
    [link |-> FALSE, join |-> 0, conn |-> FALSE] }   \* WiFi gone

\* What WiFi.begin() returns on the k-th attempt of one connectWiFi() call
WiFi_begin(k, net) ==
  IF net.join # 0 /\ k >= net.join THEN "WL_CONNECTED" ELSE "WL_CONNECT_FAILED"

\* Faulty loop: the attempts are counted from 0 to 15 inclusive, one too many
RECURSIVE connectWiFi_while_OneMore(_, _, _)
connectWiFi_while_OneMore(ws, attempts, net) ==
  IF ws # "WL_CONNECTED" /\ attempts <= 15
  THEN connectWiFi_while_OneMore(WiFi_begin(attempts + 1, net), attempts + 1, net)
  ELSE [wifi |-> ws, attempts |-> attempts]

\* The loop of connectWiFi() in part_003:
\*   while (wifiStatus != WL_CONNECTED && attempts < 15) {
\*     wifiStatus = WiFi.begin(..); delay(1000); attempts++; }
\* from the given wifiStatus and attempts; the result is both after the loop.
RECURSIVE connectWiFi_while(_, _, _)
connectWiFi_while(ws, attempts, net) ==
  IF ws # "WL_CONNECTED" /\ attempts < 15
  THEN connectWiFi_while(WiFi_begin(attempts + 1, net), attempts + 1, net)
  ELSE [wifi |-> ws, attempts |-> attempts]

\* connectWiFi() of part_003 (the shield is present): ws is wifiStatus.  The loop
\* with one second per attempt, then a three-second message.  Result: the new
\* wifiStatus, the WiFi.begin attempts made and the time taken.
connectWiFi_part003(ws, net) ==
  LET w == connectWiFi_while(ws, 0, net)
  IN  [wifi |-> w.wifi, attempts |-> w.attempts, dur |-> w.attempts * 1000 + 3000]

\* sendTelegramAlert() of part_003.  Result: the new wifiStatus, how the send ended
\* ("sent", "refused", "nowifi"), the time the call blocked, whether it went
\* through "Reconnecting..." and the WiFi.begin attempts it made.
sendTelegramAlert_part003(ws, net) ==
  LET c == connectWiFi_part003(ws, net)
      \* WiFi.status() after the reconnect: up iff a WiFi.begin attempt joined
      up == net.link \/ (c.attempts > 0 /\ c.wifi = "WL_CONNECTED")
      ws1 == IF net.link THEN ws ELSE c.wifi
      pre == IF net.link THEN 0 ELSE 2000 + c.dur
      att == IF net.link THEN 0 ELSE c.attempts
      Result(outcome, dur) ==
        [wifi |-> ws1, outcome |-> outcome, dur |-> dur,
         reconnect |-> ~net.link, attempts |-> att]
  IN  IF ~up
      THEN Result("nowifi", pre + 3000)
      ELSE IF net.conn
           THEN Result("sent", pre + 500 + 2000)
           ELSE Result("refused", pre + 3000)

\* sendTelegramAlert() of guardian.ino and part_001: client.connect, the request or
\* the "Failed!" screen, client.stop, delay(2000).
sendTelegramAlert(ws, net) ==
  [wifi |-> ws, outcome |-> IF net.conn THEN "sent" ELSE "refused", dur |-> 2000,
   reconnect |-> FALSE, attempts |-> 0]

Sender(v, ws, net) ==
  IF v = "part_003" THEN sendTelegramAlert_part003(ws, net)
                    ELSE sendTelegramAlert(ws, net)

\* The screen message shown before the send: "Button Press!" / "Fall Detected!" with
\* delay(500) in guardian.ino, displayMessage(.., 1000) in part_003, none in part_001.
AnnounceDelay(v) == CASE v = "guardian" -> 500
                      [] v = "part_001" -> 0
                      [] v = "part_003" -> 1000

\* ---------------------------------------------------------------- loop()
\* Faulty cooldown test: the triggers are looked at in every loop() call.
CooldownOver_Always(v, t, last) == TRUE

\* The cooldown test that lets loop() look at the triggers:
\*   millis() - lastAlertTime > ALERT_COOLDOWN           (guardian.ino:112, part_001:97)
\*   !(millis() - lastAlertTime < ALERT_COOLDOWN_MS)     (part_003:106)
CooldownOver(v, t, last) ==
  IF v = "part_003"
  THEN ~(Elapsed(t, last) < ALERT_COOLDOWN(v))
  ELSE Elapsed(t, last) > ALERT_COOLDOWN(v)

\* One call of sendTelegramAlert() from loop() for the given reason, with the
\* message before it and the write of lastAlertTime after it.  m is the run of the
\* loop() call so far: the clock t, the globals, and what was sent.
Alert(v, m, reason, net) ==
  LET at == m.t + AnnounceDelay(v)
      r  == Sender(v, m.wifi, net)
      t1 == at + r.dur
  IN  [m EXCEPT !.t = t1, !.wifi = r.wifi, !.last = Millis(t1),
                !.writes = @ + 1,
                !.sends = Append(@, [reason |-> reason, at |-> at,
                                     outcome |-> r.outcome,
                                     reconnect |-> r.reconnect,
                                     attempts |-> r.attempts,
                                     dur |-> r.dur])]

\* Faulty trigger 1: the button is honoured only while lastAlertTime is still 0,
\* that is once per power-up.
TriggerButton_OneShot(v, m, b, net) ==
  IF b /\ m.last = 0 THEN Alert(v, m, "Manual", net) ELSE m

\* Trigger 1: the button (guardian.ino:115-122, part_001:98-101, part_003:112-116)
TriggerButton(v, m, b, net) ==
  IF b THEN Alert(v, m, "Manual", net) ELSE m

\* Faulty trigger 2: the result of checkForFall() is dropped, nothing is sent.
TriggerFall_NoSend(v, m, raw, net) ==
  LET c == Detector(v, m.flag, m.time, raw, m.t)
  IN  [m EXCEPT !.flag = c.flag, !.time = c.time, !.raw = raw,
                !.checkAt = m.t,
                !.fall = IF c.ret THEN "true" ELSE "false"]

\* Trigger 2: the fall detector (guardian.ino:125-132, part_001:103-106,
\* part_003:119-123)
TriggerFall(v, m, raw, net) ==
  LET c  == Detector(v, m.flag, m.time, raw, m.t)
      m1 == [m EXCEPT !.flag = c.flag, !.time = c.time, !.raw = raw,
                      !.checkAt = m.t,
                      !.fall = IF c.ret THEN "true" ELSE "false"]
  IN  IF c.ret THEN Alert(v, m1, "FallDetected", net) ELSE m1

\* Faulty loop(): the fall detector is asked before the button.
LoopArmed_FallFirst(v, m, b, raw, net1, net2) ==
  TriggerButton(v, TriggerFall(v, m, raw, net2), b, net1)

\* The part of loop() behind the cooldown test: both triggers, in this order.
LoopArmed(v, m, b, raw, net1, net2) ==
  TriggerFall(v, TriggerButton(v, m, b, net1), raw, net2)

\* What remains of a pass: updateDisplay() and delay(100) in guardian.ino and
\* part_001; part_003 has neither, one pass of it takes Step.
LoopPause(v) == IF v = "part_003" THEN Step ELSE 100

\* The run of a loop() call as it starts
Entry ==
  [t |-> now, last |-> lastAlertTime, flag |-> freefall_flag,
   time |-> freefall_time, wifi |-> wifiStatus, sends |-> <<>>,
   raw |-> <<>>, checkAt |-> -1, fall |-> "none", writes |-> 0]

\* The runs of a loop() call that got past the cooldown test, over all inputs
ArmedRuns(v, m, b) ==
  { LoopArmed(v, m, b, raw, n1, n2) :
      raw \in readings, n1 \in NetCases, n2 \in NetCases }

\* The state after a loop() call that ran as m
Commit(m, b, isArmed) ==
  LET called == m.fall # "none"
      dip    == called /\ IsFreefall(variant, m.raw)
      fresh  == ~freefall_flag
  IN
  /\ now' = m.t + LoopPause(variant)
  /\ lastAlertTime' = m.last
  /\ freefall_flag' = m.flag
  /\ freefall_time' = m.time
  /\ wifiStatus' = m.wifi
  /\ button' = b
  /\ armed' = isArmed
  /\ fallRet' = m.fall
  /\ checkAt' = m.checkAt
  /\ sends' = m.sends
  /\ writes' = m.writes
  /\ sample' = m.raw
  /\ prevSendAt' = IF sends # <<>> THEN sends[Len(sends)].at ELSE prevSendAt
  /\ dipSeen' = (dipSeen \/ dip)
  /\ winOpenedAt' = IF fresh THEN (IF dip THEN m.checkAt ELSE -1) ELSE winOpenedAt
  /\ lastDipAt' = IF dip THEN m.checkAt ELSE IF fresh THEN -1 ELSE lastDipAt
  /\ passes' = IF isArmed THEN passes + 1 ELSE passes
  /\ everConfirmed' = (everConfirmed \/ m.fall = "true")
  /\ lastAlertAt' = IF m.writes > 0 THEN m.t ELSE lastAlertAt
  /\ onlyTilted' = (onlyTilted /\ (called => IsTilted(m.raw)))
  /\ UNCHANGED <<variant, readings, startAt, setupAttempts>>

\* The time after which loop() is not followed any further
Horizon(v) == startAt + ALERT_COOLDOWN(v) + Span

\* loop() of guardian.ino (110-140) and part_001 (96-110)
loop ==
  /\ variant \in {"guardian", "part_001"}
  /\ now < Horizon(variant)
  /\ \E b \in BOOLEAN :
       IF CooldownOver(variant, now, lastAlertTime)
       THEN /\ passes < MaxArmed
            /\ \E m \in ArmedRuns(variant, Entry, b) : Commit(m, b, TRUE)
       ELSE Commit(Entry, b, FALSE)

\* loop() of part_003 (104-124)
loop_part003 ==
  /\ variant = "part_003"
  /\ now < Horizon(variant)
  /\ \E b \in BOOLEAN :
       IF ~CooldownOver(variant, now, lastAlertTime)
       THEN Commit(Entry, b, FALSE)
       ELSE /\ passes < MaxArmed
            /\ \E m \in ArmedRuns(variant, Entry, b) : Commit(m, b, TRUE)

\* ------------------------------------------------------------- power-up
\* millis() when setup() returns.  guardian.ino and part_001: 1000 + 1500 ms of
\* messages, one 5 s round of connectWiFi(), 2000 ms "WiFi Connected".
\* part_003: 2000 + 1000 ms of messages, eight one-second attempts, 3000 ms.
BootTimes(v) == IF v = "part_003" THEN {14000} ELSE {9500}

\* The globals and statics as initialised but wifiStatus, and no history
Fresh ==
  /\ startAt = now
  /\ lastAlertTime = 0
  /\ freefall_flag = FALSE
  /\ freefall_time = 0
  /\ button = FALSE
  /\ armed = FALSE
  /\ sample = <<>>
  /\ fallRet = "none"
  /\ checkAt = -1
  /\ sends = <<>>
  /\ writes = 0
  /\ prevSendAt = -1
  /\ dipSeen = FALSE
  /\ winOpenedAt = -1
  /\ lastDipAt = -1
  /\ passes = 0
  /\ everConfirmed = FALSE
  /\ lastAlertAt = 0
  /\ onlyTilted = TRUE

\* The device after a setup() that joined the WiFi within BootTimes
Boot ==
  /\ Fresh
  /\ wifiStatus = "WL_CONNECTED"
  /\ setupAttempts = IF variant = "part_003" THEN 8 ELSE 1

\* Power-up with a sensor that may deliver any of the readings
Init ==
  /\ variant \in Variants
  /\ now \in BootTimes(variant)
  /\ Boot
  /\ readings = Samples(variant)

\* Power-up with the device at rest throughout: the only trigger is the button
InitAtRest ==
  /\ variant \in Variants
  /\ now \in BootTimes(variant)
  /\ Boot
  /\ readings = {RawOf(variant, 10)}

\* The device some seconds or some tenths of a second before millis() wraps, left
\* alone since power-up: no alert was sent, no window was opened.
InitBeforeWrap ==
  /\ variant \in Variants
  /\ now \in {MillisModulus - ALERT_COOLDOWN(variant) - 3000, MillisModulus - 300}
  /\ Boot
  /\ readings = {RawOf(variant, g) : g \in GLevels}

\* The network during connectWiFi() in setup(): joined on the first attempt, on
\* the eighth, or never
SetupNetCases == { [link |-> FALSE, join |-> j, conn |-> FALSE] : j \in {0, 1, 8} }

\* The device at rest after setup(): in part_003 after 2000 + 1000 ms of messages
\* and connectWiFi() from wifiStatus = WL_IDLE_STATUS, armed or in offline mode.
InitSetup ==
  /\ variant \in Variants
  /\ \E net \in SetupNetCases :
       LET c == connectWiFi_part003("WL_IDLE_STATUS", net)
       IN  IF variant = "part_003"
           THEN /\ now = 2000 + 1000 + c.dur
                /\ wifiStatus = c.wifi
                /\ setupAttempts = c.attempts
           ELSE /\ now \in BootTimes(variant)
                /\ wifiStatus = "WL_CONNECTED"
                /\ setupAttempts = 1
  /\ Fresh
  /\ readings = {RawOf(variant, 10)}

Next == loop \/ loop_part003

Spec == Init /\ [][Next]_vars

WrapSpec == InitBeforeWrap /\ [][Next]_vars

SetupSpec == InitSetup /\ [][Next]_vars

\* loop() keeps being called: the Arduino core calls it again whenever it returns,
\* and every delay and send inside it returns.
FairSpec == InitAtRest /\ [][Next]_vars /\ WF_vars(Next)

\* ======================================================================
\* Properties
\* ======================================================================
\* Time of the last sendTelegramAlert() call up to and including the last loop()
\* call, -1 if there was none
LastSendAt == IF sends # <<>> THEN sends[Len(sends)].at ELSE prevSendAt

\* C1 (cooldown safety): once sendTelegramAlert() has been called at time t,
\* whether or not the send succeeded, it is not called again at any time t' with
\* t' - t < ALERT_COOLDOWN: every call is at least ALERT_COOLDOWN after the call
\* before it, be that one in an earlier loop() call or in the same.
C1_CooldownSafety ==
  /\ (sends # <<>> /\ prevSendAt # -1)
       => sends[1].at - prevSendAt >= ALERT_COOLDOWN(variant)
  /\ \A i \in 2..Len(sends) :
       sends[i].at - sends[i - 1].at >= ALERT_COOLDOWN(variant)

\* C2 (single reason per cycle): a loop() call sends at most one alert; with the
\* button down and a fall confirmed in the same call, only the Manual one.
C2_SingleReasonPerCycle == Len(sends) <= 1

\* C3 (button precedence): in a loop() call outside cooldown with the button down,
\* the first alert of the call is the Manual one, also when the fall detector
\* confirms a fall in that call.
C3_ButtonPrecedence ==
  (armed /\ button) => (sends # <<>> /\ sends[1].reason = "Manual")

\* C3 happens: button down and fall confirmed in one call, Manual sent first
C3_Witness ==
  /\ armed /\ button /\ fallRet = "true"
  /\ Len(sends) = 2 /\ sends[1].reason = "Manual" /\ sends[2].reason = "FallDetected"

\* C4 (held button): in a loop() call with the button down and no fall confirmed,
\* exactly one Manual alert is sent if no cooldown is active when the call starts
\* (no alert was sent so far, or the cooldown of the last one is over), and no alert
\* is sent if a cooldown is active.  So a button held down from a state without
\* cooldown gives one Manual alert on its first cycle and none on the following
\* ones until the cooldown has expired.
C4_HeldButton ==
  [][ (button' /\ fallRet' # "true")
        => IF LastSendAt = -1 \/ CooldownOver(variant, now, lastAlertTime)
           THEN Len(sends') = 1 /\ sends'[1].reason = "Manual"
           ELSE sends' = <<>> ]_vars

\* C5 (no cooldown before the first alert): as long as no alert has been sent since
\* power-up, a loop() call with the button down sends an alert, whatever millis() is.
C5_NoCooldownBeforeFirstAlert ==
  (prevSendAt = -1 /\ button) => sends # <<>>

\* C6 (fire-and-forget): when a send fails ("refused", or "nowifi" in part_003),
\* lastAlertTime is set after it all the same and no further send is attempted
\* before the cooldown has expired: the failed send is the last one of its loop()
\* call.
C6_FireAndForget ==
  \A i \in 1..Len(sends) :
    sends[i].outcome # "sent"
      => (lastAlertTime >= sends[i].at /\ i = Len(sends))

\* C7 (no freefall, no fall): as long as no reading was below FREEFALL_THRESHOLD,
\* checkForFall() has not returned true, readings above IMPACT_THRESHOLD included.
C7_NoFreefallNoFall == (fallRet = "true") => dipSeen

\* C7 happens: an impact reading on a stream that never dipped, and false returned
C7_Witness ==
  ~dipSeen /\ fallRet = "false" /\ IsImpact(variant, sample) /\ passes >= 2

\* The window was opened by a dip that lasted the minimum duration (part_003:
\* FREEFALL_TIME_MS; the other sketches ask for none), no fall was confirmed in it
\* so far, and this call reads an impact, within FREEFALL_TIMEOUT of the opening
\* where the sketch has a timeout.
ImpactAfterDip ==
  /\ winOpenedAt >= 0
  /\ fallRet # "true"
  /\ lastDipAt - winOpenedAt >= (IF variant = "part_003" THEN FREEFALL_TIME_MS ELSE 0)
  /\ fallRet' # "none"
  /\ IsImpact(variant, sample')
  /\ (variant # "part_003" => checkAt' - winOpenedAt <= FREEFALL_TIMEOUT(variant))

C9_BoundedWindow ==
  (variant # "part_003" /\ fallRet = "true")
    => checkAt - lastDipAt <= FREEFALL_TIMEOUT(variant)

\* C10 (glitch rejection): in part_003 a reading above IMPACT_THRESHOLD_G that
\* arrives before FREEFALL_TIME_MS has passed since the window was opened makes
\* checkForFall() return false.
C10_GlitchRejection ==
  ( /\ variant = "part_003"
    /\ fallRet # "none"
    /\ IsImpact(variant, sample)
    /\ winOpenedAt >= 0
    /\ checkAt - winOpenedAt < FREEFALL_TIME_MS )
    => fallRet = "false"

\* C10 happens: an impact reading in an open window younger than FREEFALL_TIME_MS
C10_Witness ==
  /\ variant = "part_003"
  /\ fallRet = "false"
  /\ IsImpact(variant, sample)
  /\ winOpenedAt >= 0
  /\ checkAt - winOpenedAt < FREEFALL_TIME_MS


\* C11 (at most one confirmation per window): a call of checkForFall() that returns
\* true closes the window; a call returns true only if the window was open when it
\* began; and a closed window is opened only by a call that reads below
\* FREEFALL_THRESHOLD.  So after a confirmation every call returns false until a
\* new dip, also on readings above IMPACT_THRESHOLD.
C11_OneConfirmationPerWindow ==
  [][ /\ fallRet' = "true" => (freefall_flag /\ ~freefall_flag')
      /\ (~freefall_flag /\ freefall_flag') => IsFreefall(variant, sample') ]_vars

\* C11 happens: after a confirmation, with no dip since, a call reads an impact and
\* returns false
C11_Witness ==
  /\ everConfirmed
  /\ fallRet = "false"
  /\ IsImpact(variant, sample)
  /\ winOpenedAt = -1
  /\ ~freefall_flag

\* C12 (fall alert end to end): a loop() call outside cooldown with the button up
\* in which checkForFall() confirms a fall sends exactly one alert, with reason
\* FallDetected.
C12_FallAlertEndToEnd ==
  (armed /\ ~button /\ fallRet = "true")
    => (Len(sends) = 1 /\ sends[1].reason = "FallDetected")

\* C12 happens: button up, a dip of at least FREEFALL_TIME_MS, then the impact read
\* and the alert sent
C12_Witness ==
  /\ armed /\ ~button /\ fallRet = "true"
  /\ IsImpact(variant, sample)
  /\ winOpenedAt >= 0 /\ lastDipAt - winOpenedAt >= FREEFALL_TIME_MS
  /\ Len(sends) = 1 /\ sends[1].reason = "FallDetected"

\* C13 (slump detection): a stream on which the device is tilted away from its
\* normal orientation from the first reading on and does not recover, and whose
\* magnitude never drops below FREEFALL_THRESHOLD, is detected as a fall: by the
\* last loop() call followed, checkForFall() has returned true.
C13_SlumpDetection ==
  (onlyTilted /\ passes = MaxArmed) => everConfirmed

\* C14 (sensor read failure): a loop() call whose sensor read failed is skipped by
\* the detector: checkForFall() returns false and leaves the freefall flag and
\* start time as they were, and with the button up lastAlertTime is unchanged.
C14_SensorReadFailure ==
  [][ (fallRet' # "none" /\ sample' \in FailedRaws)
        => /\ fallRet' = "false"
           /\ freefall_flag' = freefall_flag
           /\ freefall_time' = freefall_time
           /\ (~button' => lastAlertTime' = lastAlertTime) ]_vars

\* C15 (cooldown timestamp frame): lastAlertTime is assigned only in a loop() call
\* that sends an alert, and exactly once in such a call; a call that sends no
\* alert leaves it unchanged.
C15_LastAlertTimeFrame ==
  [][ /\ sends' = <<>> => (writes' = 0 /\ lastAlertTime' = lastAlertTime)
      /\ sends' # <<>> => writes' = 1 ]_vars

\* C16 (window start is not refreshed): a call of checkForFall() that finds the
\* freefall window open does not change the recorded start time, whatever it
\* reads; only the call that opens a closed window writes it.
C16_WindowStartNotRefreshed ==
  [][ (fallRet' # "none" /\ freefall_flag) => freefall_time' = freefall_time ]_vars

\* C17 (window timeout invariant): after a call of checkForFall() of guardian.ino
\* or part_001 that does not confirm a fall, a window that is still open was
\* opened at most FREEFALL_TIMEOUT ago, however long the readings stay below
\* FREEFALL_THRESHOLD.
C17_WindowTimeoutInvariant ==
  (variant # "part_003" /\ fallRet = "false" /\ freefall_flag)
    => checkAt - winOpenedAt <= FREEFALL_TIMEOUT(variant)

\* C18 (cooldown boundary): in a loop() call that starts exactly ALERT_COOLDOWN
\* after lastAlertTime was set by an alert, the cooldown is over: with the button
\* down the call sends an alert.
C18_CooldownBoundary ==
  [][ ( /\ LastSendAt # -1
        /\ Elapsed(now, lastAlertTime) = ALERT_COOLDOWN(variant)
        /\ button' )
        => sends' # <<>> ]_vars

\* C19 (minimum-duration boundary): in part_003 an impact reading in a window that
\* has been open for at least FREEFALL_TIME_MS, exactly FREEFALL_TIME_MS included,
\* makes checkForFall() return true.
C19_MinimumDurationBoundary ==
  ( /\ variant = "part_003"
    /\ fallRet # "none"
    /\ IsImpact(variant, sample)
    /\ winOpenedAt >= 0
    /\ checkAt - winOpenedAt >= FREEFALL_TIME_MS )
    => fallRet = "true"

\* C20 (immediate-impact rule of part_003): a call of checkForFall() that reads at
\* or above FREEFALL_THRESHOLD_G leaves the window closed, impact or not; and a
\* call returns true only if it reads an impact with the window open, the reading
\* before it, if any was taken in the call before, being a dip.
C20_ImmediateImpactRule ==
  [][ variant = "part_003"
        => /\ (fallRet' # "none" /\ ~IsFreefall(variant, sample'))
                => ~freefall_flag'
           /\ fallRet' = "true"
                => /\ freefall_flag
                   /\ IsImpact(variant, sample')
                   /\ (sample # <<>> => IsFreefall(variant, sample)) ]_vars

\* C20 happens: part_003 reads an impact after a freefall whose window a reading in
\* between had closed, and returns false
C20_Witness ==
  /\ variant = "part_003"
  /\ dipSeen /\ ~everConfirmed
  /\ winOpenedAt = -1 /\ ~freefall_flag
  /\ fallRet = "false"
  /\ IsImpact(variant, sample)

\* C21 (detector frozen during cooldown): a loop() call that starts less than
\* ALERT_COOLDOWN after lastAlertTime evaluates no trigger: checkForFall() is not
\* called, nothing is sent, and the freefall flag, the freefall start time and
\* lastAlertTime are unchanged.
C21_DetectorFrozenDuringCooldown ==
  [][ Elapsed(now, lastAlertTime) < ALERT_COOLDOWN(variant)
        => /\ fallRet' = "none"
           /\ sends' = <<>>
           /\ freefall_flag' = freefall_flag
           /\ freefall_time' = freefall_time
           /\ lastAlertTime' = lastAlertTime ]_vars

\* C21 happens: the first checkForFall() call after a cooldown finds the window
\* that was open when the cooldown began
C21_Witness ==
  /\ armed
  /\ prevSendAt # -1
  /\ fallRet # "none"
  /\ winOpenedAt >= 0
  /\ checkAt - winOpenedAt >= ALERT_COOLDOWN(variant)

\* After this alert the cooldown ends, and a call past the cooldown test is made,
\* within the calls that are followed.
ReArmFollowed ==
  /\ lastAlertTime + ALERT_COOLDOWN(variant) + LoopPause(variant) < Horizon(variant)
  /\ passes < MaxArmed

\* C22 (re-arming liveness): after the first alert, as long as loop() keeps being
\* called, either the button is found up in some call or another alert is sent:
\* a button that stays down leads to another alert once the cooldown has expired.
C22_ReArmingLiveness ==
  (sends # <<>> /\ prevSendAt = -1 /\ ReArmFollowed)
    ~> (~button \/ (sends # <<>> /\ prevSendAt # -1))

\* C22 happens: a second alert, sent with the button down after the cooldown of
\* the first
C22_Witness ==
  /\ button
  /\ sends # <<>> /\ sends[1].reason = "Manual"
  /\ prevSendAt # -1
  /\ sends[1].at - prevSendAt >= ALERT_COOLDOWN(variant)

C24_ReconnectOnSend ==
  \A i \in DOMAIN sends :
     (variant = "part_003" /\ sends[i].reconnect /\ sends[i].outcome = "nowifi")
        => sends[i].attempts >= 1

\* C25 (bounded WiFi association, part_003): connectWiFi() makes at most 15
\* attempts, in setup() and in every send; setup() is over at most
\* 2000 + 1000 + 15 * 1000 + 3000 ms after power-up, armed or in offline mode, and
\* loop() can be called then; every sendTelegramAlert() call returns, at most
\* 2000 + 15 * 1000 + 3000 + 3000 ms after it began.
C25_BoundedWiFiAssociation ==
  variant = "part_003"
    => /\ setupAttempts <= 15
       /\ startAt <= 2000 + 1000 + 15 * 1000 + 3000
       /\ passes = 0 /\ now = startAt => ENABLED loop_part003
       /\ \A i \in DOMAIN sends :
             /\ sends[i].attempts <= 15
             /\ sends[i].outcome \in {"sent", "refused", "nowifi"}
             /\ sends[i].dur <= 2000 + 15 * 1000 + 3000 + 3000

\* C25 happens: setup() gave up after 15 attempts, loop() runs in offline mode, and
\* a send gave up after another 15 attempts
C25_Witness ==
  /\ variant = "part_003"
  /\ setupAttempts = 15
  /\ wifiStatus # "WL_CONNECTED"
  /\ armed
  /\ sends # <<>>
  /\ sends[1].reconnect
  /\ sends[1].attempts = 15
  /\ sends[1].outcome = "nowifi"
====
